---- MODULE Spec2Model ----
(***************************************************************************)
(* A model of build_scripts/coolors_parser.py: the palette extractor       *)
(* parse_coolors_xml, the colormap builder create_colormap_json and the    *)
(* command-line driver main.                                               *)
(*                                                                         *)
(* Python values are tagged: None is [t |-> "none"], a str is              *)
(* [t |-> "str", v |-> ...].  Names and hex codes carry a TLA+ string, the *)
(* text of an r/g/b attribute carries a sequence of one-character strings  *)
(* so that int() can be modelled as the scan it is.  A gradient position   *)
(* is a float with at most 4 decimals; it is held as the integer number of *)
(* ten-thousandths (PosScale).                                             *)
(***************************************************************************)
EXTENDS Integers, Sequences, FiniteSets, TLC

VARIABLES
    pc,          \* control point of the run / of the function call
    input,       \* the document behind the input stream: [children, drop]
    args,        \* parsed command line: [name, pretty, outIsFile]
    xml_content, \* main: the text read from the input (a token sequence)
    colors,      \* result of parse_coolors_xml / argument of the builder
    colormap,    \* result of create_colormap_json
    dumped,      \* number of chunks json.dump has written so far
    sink,        \* content of the primary output (sequence of chunks)
    pending,     \* chunks written to args.output and still in its buffer
    lost,        \* buffered output was discarded by a failed flush
    prior,       \* what the primary output held before the run started
    diag,        \* messages printed on the diagnostic channel (stderr)
    raised,      \* the exception that ended the call/run, or "none"
    exitCode     \* process exit status, NoExit while running

vars == <<pc, input, args, xml_content, colors, colormap, dumped, sink,
          pending, lost, prior, diag, raised, exitCode>>

\* what the run is given, and the state of the output
given == <<input, args, prior>>
output == <<sink, pending, lost>>

-----------------------------------------------------------------------------
(* Bounds of the model *)

MaxColors == 7          \* longest color list handed to the builder
MaxChildren == 2        \* most children of the root in a parsed document
MaxMainChildren == 2    \* most children of the root in a whole run

-----------------------------------------------------------------------------
(* Python values *)

None == [t |-> "none"]
Str(s) == [t |-> "str", v |-> s]

Ok(v) == [ok |-> TRUE, v |-> v]
Raise(e) == [ok |-> FALSE, exc |-> e]

NoExit == -1

\* round(position, 4): positions are counted in units of 1/PosScale
PosScale == 10000

\* str(x) as an f-string replacement field renders it: None is the text "None"
Format(x) == IF x = None THEN "None" ELSE x.v

-----------------------------------------------------------------------------
(* create_colormap_json *)

\* i / d, true division: a rational <<numerator, denominator>>, or
\* ZeroDivisionError
TrueDiv(i, d) == IF d = 0 THEN Raise("ZeroDivisionError") ELSE Ok(<<i, d>>)

\* Round4 cutting the digits after the fourth instead of rounding
Round4_Truncate(x) == (x[1] * PosScale) \div x[2]

\* round(x, 4) of the rational x = <<n, d>>, in ten-thousandths; a tie goes
\* to the even neighbour (float round, exact for the dyadic ties)
Round4(x) ==
    LET n == x[1] * PosScale
        d == x[2]
        q == n \div d
        r == n % d
    IN  IF 2 * r < d THEN q
        ELSE IF 2 * r > d THEN q + 1
        ELSE IF q % 2 = 0 THEN q ELSE q + 1

\* Position without the test for a single color
Position_Unguarded(i, num_colors) == TrueDiv(i, num_colors - 1)

\* position = i / (num_colors - 1) if num_colors > 1 else 0.0   (i from 0)
Position(i, num_colors) ==
    IF num_colors > 1 THEN TrueDiv(i, num_colors - 1) ELSE Ok(<<0, 1>>)

\* the dictionary appended to stops for the color at 0-based index i
Stop(color, i, num_colors) ==
    [position |-> Round4(Position(i, num_colors).v),
     color |-> [r |-> color.r, g |-> color.g, b |-> color.b]]

\* Stops walking the colors from the last to the first
Stops_Reversed(cs) ==
    [k \in 1..Len(cs) |-> Stop(cs[Len(cs) + 1 - k], k - 1, Len(cs))]

\* the stops list built by the enumerate loop
Stops(cs) == [k \in 1..Len(cs) |-> Stop(cs[k], k - 1, Len(cs))]

\* the name derived when the caller gives none
DerivedName(cs) ==
    IF Len(cs) >= 2
    THEN Str(Format(cs[1].name) \o " " \o Format(cs[Len(cs)].name))
    ELSE cs[1].name

\* ColormapName testing the override for truth ("if not name") instead of
\* for None
ColormapName_Falsy(cs, name) ==
    IF name = None \/ name = Str("") THEN DerivedName(cs) ELSE name

\* the name the colormap gets
ColormapName(cs, name) == IF name = None THEN DerivedName(cs) ELSE name

\* create_colormap_json answering an empty list with an empty colormap
create_colormap_json_Default(cs, name) ==
    IF Len(cs) = 0 THEN Ok([name |-> Str("default"), stops |-> <<>>])
    ELSE IF \E k \in 1..Len(cs) : ~Position(k - 1, Len(cs)).ok
    THEN Raise("ZeroDivisionError")
    ELSE Ok([name |-> ColormapName(cs, name), stops |-> Stops(cs)])

create_colormap_json(cs, name) ==
    IF Len(cs) = 0 THEN Raise("ValueError")
    ELSE IF \E k \in 1..Len(cs) : ~Position(k - 1, Len(cs)).ok
    THEN Raise("ZeroDivisionError")
    ELSE Ok([name |-> ColormapName(cs, name), stops |-> Stops(cs)])

-----------------------------------------------------------------------------
(* The input document.  The markup text is a sequence of tags: an opening  *)
(* tag with its attributes, or a closing tag.  An element is               *)
(* [tag, attrs, kids]; attrs gives, for each of name, hex, r, g, b, the    *)
(* attribute's text or None when the element does not carry it.            *)

OpenTag(tag, attrs) == [k |-> "open", tag |-> tag, attrs |-> attrs]
CloseTag(tag) == [k |-> "close", tag |-> tag]

Element(tag, attrs, kids) == [tag |-> tag, attrs |-> attrs, kids |-> kids]

NoAttrs == [name |-> None, hex |-> None, r |-> None, g |-> None, b |-> None]

RECURSIVE ElementText(_)
RECURSIVE ElementsText(_)
\* the markup of one element, and of a sequence of sibling elements
ElementText(e) ==
    <<OpenTag(e.tag, e.attrs)>> \o ElementsText(e.kids) \o <<CloseTag(e.tag)>>
ElementsText(es) ==
    IF Len(es) = 0 THEN <<>> ELSE ElementText(Head(es)) \o ElementsText(Tail(es))

\* s without its element at index i (s itself when i = 0)
DropAt(s, i) ==
    IF i = 0 THEN s
    ELSE [k \in 1..(Len(s) - 1) |-> IF k < i THEN s[k] ELSE s[k + 1]]

\* the text of the document doc: a palette root around doc.children, with
\* the tag at index doc.drop missing (doc.drop = 0: the text is well-formed)
XmlText(doc) ==
    DropAt(ElementText(Element("palette", NoAttrs, doc.children)), doc.drop)

-----------------------------------------------------------------------------
(* xml.etree.ElementTree as parse_coolors_xml uses it *)

RECURSIVE Feed(_, _, _, _)
\* the tree builder: stack holds the open elements, root the closed root
Feed(text, i, stack, root) ==
    IF i > Len(text)
    THEN IF Len(stack) > 0 \/ root = None
         THEN Raise("ParseError")                \* no element found
         ELSE Ok(root)
    ELSE IF text[i].k = "open"
    THEN IF Len(stack) = 0 /\ root # None
         THEN Raise("ParseError")                \* junk after document element
         ELSE Feed(text, i + 1,
                   Append(stack, Element(text[i].tag, text[i].attrs, <<>>)),
                   root)
    ELSE IF Len(stack) = 0
    THEN Raise("ParseError")                     \* close tag outside any element
    ELSE LET top == stack[Len(stack)]
             rest == SubSeq(stack, 1, Len(stack) - 1)
         IN  IF top.tag # text[i].tag
             THEN Raise("ParseError")            \* mismatched tag
             ELSE IF Len(rest) = 0
             THEN Feed(text, i + 1, rest, top)
             ELSE LET par == rest[Len(rest)]
                      par2 == [par EXCEPT !.kids = Append(@, top)]
                  IN  Feed(text, i + 1,
                           [rest EXCEPT ![Len(rest)] = par2], root)

\* ET.fromstring(text)
fromstring(text) == Feed(text, 1, <<>>, None)

RECURSIVE Descendants(_)
\* the elements below es, in document order
Descendants(es) ==
    IF Len(es) = 0 THEN <<>>
    ELSE <<Head(es)>> \o Descendants(Head(es).kids) \o Descendants(Tail(es))

\* findall searching the whole tree (".//color") instead of the children
findall_Descendants(elem, tag) ==
    SelectSeq(Descendants(elem.kids), LAMBDA e : e.tag = tag)

\* elem.findall(tag): the direct children of elem with that tag, in order
findall(elem, tag) == SelectSeq(elem.kids, LAMBDA e : e.tag = tag)

\* elem.get(key)
get(elem, key) == elem.attrs[key]

-----------------------------------------------------------------------------
(* int(x) for x a str or None *)

Digits == {"0", "1", "2", "3", "4", "5", "6", "7", "8", "9"}

DigitVal ==
    [c \in Digits |->
        CASE c = "0" -> 0 [] c = "1" -> 1 [] c = "2" -> 2 [] c = "3" -> 3
          [] c = "4" -> 4 [] c = "5" -> 5 [] c = "6" -> 6 [] c = "7" -> 7
          [] c = "8" -> 8 [] c = "9" -> 9]

RECURSIVE LStrip(_)
LStrip(s) == IF Len(s) > 0 /\ Head(s) = " " THEN LStrip(Tail(s)) ELSE s

RECURSIVE RStrip(_)
RStrip(s) ==
    IF Len(s) > 0 /\ s[Len(s)] = " " THEN RStrip(SubSeq(s, 1, Len(s) - 1)) ELSE s

RECURSIVE DecimalValue(_)
\* the value of a non-empty sequence of digits
DecimalValue(ds) ==
    IF Len(ds) = 0 THEN 0
    ELSE 10 * DecimalValue(SubSeq(ds, 1, Len(ds) - 1)) + DigitVal[ds[Len(ds)]]

\* int(x): None is a TypeError; a str is stripped of blanks and must be an
\* optional sign followed by one or more digits, else ValueError
int(x) ==
    IF x = None THEN Raise("TypeError")
    ELSE LET t == RStrip(LStrip(x.v))
             signed == Len(t) > 0 /\ t[1] \in {"+", "-"}
             body == IF signed THEN Tail(t) ELSE t
         IN  IF Len(body) = 0 \/ \E k \in 1..Len(body) : body[k] \notin Digits
             THEN Raise("ValueError")
             ELSE IF signed /\ t[1] = "-"
             THEN Ok(0 - DecimalValue(body))
             ELSE Ok(DecimalValue(body))

-----------------------------------------------------------------------------
(* parse_coolors_xml *)

\* the dictionary built for one color element; its entries are evaluated in
\* the order name, hex, r, g, b, so the first failing int() decides
ColorOf(color_elem) ==
    LET r == int(get(color_elem, "r"))
        g == int(get(color_elem, "g"))
        b == int(get(color_elem, "b"))
    IN  IF ~r.ok THEN r
        ELSE IF ~g.ok THEN g
        ELSE IF ~b.ok THEN b
        ELSE Ok([name |-> get(color_elem, "name"),
                 hex |-> get(color_elem, "hex"),
                 r |-> r.v, g |-> g.v, b |-> b.v])

\* ColorsOf leaving out the elements whose r, g or b does not convert
ColorsOf_SkipBad(elems) ==
    LET recs == [k \in 1..Len(elems) |-> ColorOf(elems[k])]
        good == SelectSeq(recs, LAMBDA r : r.ok)
    IN  Ok([k \in 1..Len(good) |-> good[k].v])

\* the loop over the color elements: the list of all records, or the
\* exception of the first element that has one
ColorsOf(elems) ==
    LET recs == [k \in 1..Len(elems) |-> ColorOf(elems[k])]
        bad == {k \in 1..Len(elems) : ~recs[k].ok}
    IN  IF bad # {}
        THEN recs[CHOOSE k \in bad : \A j \in bad : k <= j]
        ELSE Ok([k \in 1..Len(elems) |-> recs[k].v])

parse_coolors_xml(text) ==
    LET root == fromstring(text)
    IN  IF ~root.ok THEN root ELSE ColorsOf(findall(root.v, "color"))

-----------------------------------------------------------------------------
(* json.dump(colormap, args.output[, indent=2]) writes the document chunk  *)
(* by chunk; a chunk of the sink is a record tagged by j.                  *)

Chunk(j, v) == [j |-> j, v |-> v]

Newline == [j |-> "newline"]

\* the chunks of one stop; the pretty form has indentation before it
StopChunks(stop, pretty) ==
    (IF pretty THEN <<Chunk("indent", 4)>> ELSE <<>>)
    \o <<Chunk("position", stop.position), Chunk("color", stop.color)>>

RECURSIVE StopsChunks(_, _)
StopsChunks(stops, pretty) ==
    IF Len(stops) = 0 THEN <<>>
    ELSE StopChunks(Head(stops), pretty) \o StopsChunks(Tail(stops), pretty)

\* the chunks of the whole object, key "name" first, then "stops"
Encode(cm, pretty) ==
    <<Chunk("open", "{")>>
    \o (IF pretty THEN <<Chunk("indent", 2)>> ELSE <<>>)
    \o <<Chunk("name", cm.name)>>
    \o (IF pretty THEN <<Chunk("indent", 2)>> ELSE <<>>)
    \o <<Chunk("open", "[")>>
    \o StopsChunks(cm.stops, pretty)
    \o <<Chunk("close", "]")>>
    \o <<Chunk("close", "}")>>

-----------------------------------------------------------------------------
(* The except clauses of main: the message printed and the exit status *)

Handler(exc) ==
    IF exc = "ParseError"
    THEN [msg |-> "Error parsing XML", code |-> 1]
    ELSE [msg |-> "Error", code |-> 1]

-----------------------------------------------------------------------------
(* Inputs *)

\* texts of r, g, b attributes
Txt0 == Str(<<"0">>)
Txt255 == Str(<<"2", "5", "5">>)
TxtPad7 == Str(<<" ", "7", " ">>)
TxtNeg1 == Str(<<"-", "1">>)
TxtPlus300 == Str(<<"+", "3", "0", "0">>)
TxtBlue == Str(<<"b", "l", "u", "e">>)
TxtFrac == Str(<<"1", ".", "5">>)
TxtSign == Str(<<"-">>)

Attrs(name, hex, r, g, b) ==
    [name |-> name, hex |-> hex, r |-> r, g |-> g, b |-> b]

\* attribute sets of well-formed color elements
GoodAttrs ==
    {Attrs(Str("Red"), Str("#FF0000"), Txt255, Txt0, Txt0),
     Attrs(None, None, Txt0, Txt0, Txt255),
     Attrs(Str("Odd"), Str("zz"), TxtPad7, TxtNeg1, TxtPlus300)}

\* texts that int() rejects, and the absent attribute
BadTexts == {None, TxtBlue, TxtFrac, TxtSign}

\* attribute sets with exactly one of r, g, b absent or not an integer
BadAttrs ==
    {Attrs(Str("Red"), Str("#FF0000"), x, Txt0, Txt0) : x \in BadTexts}
    \cup {Attrs(Str("Red"), Str("#FF0000"), Txt255, x, Txt0) : x \in BadTexts}
    \cup {Attrs(None, None, Txt255, Txt0, x) : x \in BadTexts}

Leaf(tag, attrs) == Element(tag, attrs, <<>>)

\* children of the root in the documents handed to parse_coolors_xml
Children ==
    {Leaf("color", a) : a \in GoodAttrs \cup BadAttrs}
    \cup {Leaf("swatch", Attrs(Str("Red"), Str("#FF0000"), Txt255, Txt0, Txt0)),
          Leaf("swatch", NoAttrs)}
    \cup {Element(t, Attrs(Str("Red"), Str("#FF0000"), Txt255, Txt0, Txt0),
                  <<Leaf("color", a)>>) :
            t \in {"color", "swatch"},
            a \in {Attrs(None, None, Txt0, Txt0, Txt255),
                   Attrs(Str("In"), None, TxtBlue, Txt0, Txt0)}}

\* children of the root in the documents of whole runs
MainChildren ==
    {Leaf("color", Attrs(Str("Red"), Str("#FF0000"), Txt255, Txt0, Txt0)),
     Leaf("color", Attrs(None, None, Txt0, Txt0, Txt255)),
     Leaf("color", Attrs(Str("Red"), Str("#FF0000"), TxtBlue, Txt0, Txt0)),
     Leaf("color", Attrs(Str("Red"), Str("#FF0000"), Txt255, None, Txt0)),
     Element("swatch", NoAttrs,
             <<Leaf("color", Attrs(Str("In"), None, Txt0, Txt0, Txt255))>>)}

\* doc is a document with children from S, at most n of them, whole or with
\* one tag missing
IsDoc(doc, S, n) ==
    \E k \in 0..n : \E cs \in [1..k -> S] :
        \E d \in 0..(Len(ElementsText(cs)) + 2) :
            doc = [children |-> cs, drop |-> d]

\* color records handed to the builder directly
ColorRecords ==
    {Attrs(None, None, 0, 0, 255),
     Attrs(Str(""), Str("#zz"), 300, 0 - 1, 7),
     Attrs(Str("Red"), Str("#FF0000"), 255, 0, 0),
     Attrs(Str("Blue"), Str("#0000FF"), 0, 0, 255)}

\* the -n option: absent, empty, or a name
Overrides == {None, Str(""), Str("MyPalette")}

\* what the primary output holds before the run
PriorContents == {<<>>, <<Chunk("old", "data")>>}

NoArgs == [name |-> None, pretty |-> FALSE, outIsFile |-> FALSE]
NoInput == [children |-> <<>>, drop |-> 0]

-----------------------------------------------------------------------------
(* A direct call of create_colormap_json(colors, args.name) *)

\* the state of the output and of the process before anything ran
Untouched ==
    /\ dumped = 0 /\ sink = prior /\ pending = <<>> /\ lost = FALSE
    /\ diag = <<>> /\ raised = "none" /\ exitCode = NoExit

InitBuild ==
    /\ pc = "build_call"
    /\ \E k \in 0..MaxColors : colors \in [1..k -> ColorRecords]
    /\ args \in {[NoArgs EXCEPT !.name = n] : n \in Overrides}
    /\ input = NoInput /\ xml_content = <<>> /\ colormap = None
    /\ prior = <<>>
    /\ Untouched

CallBuild ==
    /\ pc = "build_call"
    /\ LET res == create_colormap_json(colors, args.name)
       IN  /\ colormap' = IF res.ok THEN res.v ELSE None
           /\ raised' = IF res.ok THEN "none" ELSE res.exc
    /\ pc' = "build_ret"
    /\ UNCHANGED <<given, xml_content, colors, output, dumped, diag, exitCode>>

(* A direct call of parse_coolors_xml(xml_content) *)

InitParse ==
    /\ pc = "parse_call"
    /\ IsDoc(input, Children, MaxChildren)
    /\ xml_content = XmlText(input)
    /\ args = NoArgs /\ colors = None /\ colormap = None
    /\ prior = <<>>
    /\ Untouched

CallParse ==
    /\ pc = "parse_call"
    /\ LET res == parse_coolors_xml(xml_content)
       IN  /\ colors' = IF res.ok THEN res.v ELSE None
           /\ raised' = IF res.ok THEN "none" ELSE res.exc
    /\ pc' = "parse_ret"
    /\ UNCHANGED <<given, xml_content, colormap, output, dumped, diag,
                   exitCode>>

-----------------------------------------------------------------------------
(* main *)

InitMain ==
    /\ pc = "args"
    /\ IsDoc(input, MainChildren, MaxMainChildren)
    /\ args \in [name : {None, Str("MyPalette")}, pretty : BOOLEAN,
                 outIsFile : BOOLEAN]
    /\ prior \in PriorContents
    /\ xml_content = <<>> /\ colors = None /\ colormap = None
    /\ Untouched

\* an exception caught by one of the except clauses: message, sys.exit(1)
Caught(exc) ==
    /\ raised' = exc
    /\ diag' = Append(diag, Handler(exc).msg)
    /\ exitCode' = Handler(exc).code
    /\ pc' = "shutdown"

\* parser.parse_args(): FileType('w') opens the output file, which empties it
ParseArgs ==
    /\ pc = "args"
    /\ sink' = IF args.outIsFile THEN <<>> ELSE sink
    /\ pc' = "read"
    /\ UNCHANGED <<given, xml_content, colors, colormap, dumped, pending, lost,
                   diag, raised, exitCode>>

\* parser.parse_args() fails (the input file cannot be opened): argparse
\* reports the error and exits with status 2, outside the try block; the
\* output file is already opened when -o precedes -i
ArgsError ==
    /\ pc = "args"
    /\ \E outOpened \in BOOLEAN :
          sink' = IF args.outIsFile /\ outOpened THEN <<>> ELSE sink
    /\ raised' = "ArgumentError"
    /\ diag' = Append(diag, "usage")
    /\ exitCode' = 2
    /\ pc' = "shutdown"
    /\ UNCHANGED <<given, xml_content, colors, colormap, dumped, pending, lost>>

\* xml_content = args.input.read()
ReadInput ==
    /\ pc = "read"
    /\ xml_content' = XmlText(input)
    /\ pc' = "parse"
    /\ UNCHANGED <<given, colors, colormap, output, dumped, diag, raised,
                   exitCode>>

\* args.input.read() raises (an I/O failure)
ReadFails ==
    /\ pc = "read"
    /\ Caught("OSError")
    /\ UNCHANGED <<given, xml_content, colors, colormap, output, dumped>>

\* colors = parse_coolors_xml(xml_content)
Parse ==
    /\ pc = "parse"
    /\ LET res == parse_coolors_xml(xml_content)
       IN  IF res.ok
           THEN /\ colors' = res.v
                /\ pc' = "check"
                /\ UNCHANGED <<diag, raised, exitCode>>
           ELSE /\ Caught(res.exc)
                /\ UNCHANGED colors
    /\ UNCHANGED <<given, xml_content, colormap, output, dumped>>

\* if not colors: print the error, sys.exit(1) (SystemExit is no Exception:
\* no except clause catches it)
CheckEmpty ==
    /\ pc = "check"
    /\ IF Len(colors) = 0
       THEN /\ raised' = "SystemExit"
            /\ diag' = Append(diag, "Error: No colors found in input")
            /\ exitCode' = 1
            /\ pc' = "shutdown"
       ELSE /\ pc' = "build"
            /\ UNCHANGED <<raised, diag, exitCode>>
    /\ UNCHANGED <<given, xml_content, colors, colormap, output, dumped>>

\* colormap = create_colormap_json(colors, args.name)
Build ==
    /\ pc = "build"
    /\ LET res == create_colormap_json(colors, args.name)
       IN  IF res.ok
           THEN /\ colormap' = res.v
                /\ pc' = "dump"
                /\ UNCHANGED <<diag, raised, exitCode>>
           ELSE /\ Caught(res.exc)
                /\ UNCHANGED colormap
    /\ UNCHANGED <<given, xml_content, colors, output, dumped>>

\* args.output.write(chunk) on the buffered output: the chunk joins the
\* buffer, which the write may then flush to the sink (when it is full)
Write(chunk) ==
    /\ \E flush \in BOOLEAN :
          IF flush
          THEN sink' = sink \o Append(pending, chunk) /\ pending' = <<>>
          ELSE pending' = Append(pending, chunk) /\ UNCHANGED sink
    /\ UNCHANGED lost

\* json.dump: the next chunk goes to args.output
DumpChunk ==
    /\ pc = "dump"
    /\ LET chunks == Encode(colormap, args.pretty)
       IN  /\ Write(chunks[dumped + 1])
           /\ dumped' = dumped + 1
           /\ pc' = IF dumped + 1 = Len(chunks) THEN "newline" ELSE "dump"
    /\ UNCHANGED <<given, xml_content, colors, colormap, diag, raised, exitCode>>

\* args.output.write('\n')
WriteNewline ==
    /\ pc = "newline"
    /\ Write(Newline)
    /\ pc' = "summary"
    /\ UNCHANGED <<given, xml_content, colors, colormap, dumped, diag, raised,
                   exitCode>>

\* a write to args.output raises: the flush of the buffer failed
WriteFails ==
    /\ pc \in {"dump", "newline"}
    /\ Caught("OSError")
    /\ UNCHANGED <<given, xml_content, colors, colormap, output, dumped>>

\* the summary line, printed when the output is not stdout; main returns
Summary ==
    /\ pc = "summary"
    /\ diag' = IF args.outIsFile THEN Append(diag, "Created colormap") ELSE diag
    /\ exitCode' = 0
    /\ pc' = "shutdown"
    /\ UNCHANGED <<given, xml_content, colors, colormap, output, dumped, raised>>

\* main never flushes or closes args.output: what is still buffered is
\* written when the interpreter shuts down.  If that flush fails the
\* buffered output is lost; for sys.stdout the exit status becomes 120, for
\* a file opened by FileType the failure is ignored
Shutdown ==
    /\ pc = "shutdown"
    /\ \E ok \in BOOLEAN :
          IF ok \/ Len(pending) = 0
          THEN /\ sink' = sink \o pending
               /\ UNCHANGED <<lost, exitCode>>
          ELSE /\ lost' = TRUE
               /\ exitCode' = IF args.outIsFile THEN exitCode ELSE 120
               /\ UNCHANGED sink
    /\ pending' = <<>>
    /\ pc' = "exited"
    /\ UNCHANGED <<given, xml_content, colors, colormap, dumped, diag, raised>>

-----------------------------------------------------------------------------

Init == InitBuild \/ InitParse \/ InitMain

Next ==
    \/ CallBuild
    \/ CallParse
    \/ ParseArgs
    \/ ArgsError
    \/ ReadInput
    \/ ReadFails
    \/ Parse
    \/ CheckEmpty
    \/ Build
    \/ DumpChunk
    \/ WriteNewline
    \/ WriteFails
    \/ Summary
    \/ Shutdown

Spec == Init /\ [][Next]_vars

-----------------------------------------------------------------------------
(* What the properties speak about *)

\* create_colormap_json was called directly and has returned or raised
BuildReturned == pc = "build_ret"

\* parse_coolors_xml was called directly and has returned or raised
ParseReturned == pc = "parse_ret"

\* the run of main has ended
Exited == pc = "exited"

\* the state belongs to a run of main
InMain ==
    pc \in {"args", "read", "parse", "check", "build", "dump", "newline",
            "summary", "shutdown", "exited"}

\* the r, g, b of a color record
RGB(c) == <<c.r, c.g, c.b>>

\* the text of a color's name; an absent name has no text
NameText(c) == IF c.name = None THEN "" ELSE c.name.v

\* the document of the input is well-formed markup
WellFormed == input.drop = 0

\* the direct children of the root named color, in document order
RECURSIVE ColorChildren(_)
ColorChildren(es) ==
    IF Len(es) = 0 THEN <<>>
    ELSE IF Head(es).tag = "color"
    THEN <<Head(es)>> \o ColorChildren(Tail(es))
    ELSE ColorChildren(Tail(es))

\* the integer a well-formed r, g or b text denotes
Denotes(txt) ==
    CASE txt = Txt0 -> 0
      [] txt = Txt255 -> 255
      [] txt = TxtPad7 -> 7
      [] txt = TxtNeg1 -> 0 - 1
      [] txt = TxtPlus300 -> 300

\* the element lacks r, g or b, or one of them is not an integer
Malformed(e) ==
    e.attrs.r \in BadTexts \/ e.attrs.g \in BadTexts \/ e.attrs.b \in BadTexts

\* the record a well-formed color element stands for
RecordOf(e) ==
    [name |-> e.attrs.name, hex |-> e.attrs.hex, r |-> Denotes(e.attrs.r),
     g |-> Denotes(e.attrs.g), b |-> Denotes(e.attrs.b)]

\* the complete serialized document of the run, with its trailing newline
Document == Encode(colormap, args.pretty) \o <<Newline>>

\* what the sink held when the run began to write: a file starts empty, a
\* stream continues
Base == IF args.outIsFile THEN <<>> ELSE prior

-----------------------------------------------------------------------------
(* Properties *)

\* C1: for every non-empty color list, with or without a name override, the
\* builder returns a colormap with one stop per color, stop i carrying
\* exactly the r, g, b of color i: nothing reordered, dropped, merged or
\* duplicated, also when colors share their r, g, b.
C1_OrderPreserved ==
    (BuildReturned /\ Len(colors) > 0) =>
        /\ raised = "none"
        /\ Len(colormap.stops) = Len(colors)
        /\ \A i \in 1..Len(colors) :
              /\ DOMAIN colormap.stops[i].color = {"r", "g", "b"}
              /\ RGB(colormap.stops[i].color) = RGB(colors[i])

C1_Witness ==
    /\ BuildReturned /\ raised = "none"
    /\ Len(colors) = 3
    /\ RGB(colors[1]) = RGB(colors[3]) /\ RGB(colors[1]) # RGB(colors[2])
    /\ args.name # None
    /\ Len(colormap.stops) = 3

\* C2: the first stop is at 0.0; with more than one color the last stop is
\* at 1.0; with one color the single stop is at 0.0 and the call does not
\* fail on a division by zero.
C2_Endpoints ==
    (BuildReturned /\ Len(colors) > 0) =>
        /\ raised = "none"
        /\ colormap.stops[1].position = 0
        /\ Len(colors) > 1 => colormap.stops[Len(colors)].position = PosScale
        /\ Len(colors) = 1 => colormap.stops[Len(colors)].position # PosScale

C2_Witness ==
    /\ BuildReturned
    /\ Len(colors) = 1
    /\ colormap # None
    /\ colormap.stops[1].position = 0

\* C3: positions never decrease from one stop to the next, each lies in
\* [0.0, 1.0], and stop i of N is at i/(N-1) rounded to 4 decimals, that is
\* within half a ten-thousandth of i/(N-1).
C3_Monotone ==
    (BuildReturned /\ Len(colors) > 0) =>
        LET N == Len(colors)
            pos(i) == colormap.stops[i].position
        IN  /\ raised = "none"
            /\ \A i \in 1..N : pos(i) >= 0 /\ pos(i) <= PosScale
            /\ \A i \in 1..(N - 1) : pos(i) <= pos(i + 1)
            /\ N > 1 =>
                 \A i \in 1..N :
                    LET off == pos(i) * (N - 1) - (i - 1) * PosScale
                    IN  2 * off <= N - 1 /\ 2 * (0 - off) <= N - 1

C3_Witness ==
    /\ BuildReturned
    /\ Len(colors) = 4
    /\ colormap # None
    /\ colormap.stops[2].position = 3333
    /\ colormap.stops[3].position = 6667

\* C4: with no override, one color gives that color's name as it is (absent
\* stays absent); two or more colors give the first color's name, one
\* space and the last color's name, whatever lies in between.
C4_DerivedName ==
    (BuildReturned /\ Len(colors) > 0 /\ args.name = None) =>
        /\ raised = "none"
        /\ Len(colors) = 1 => colormap.name = colors[1].name
        /\ Len(colors) >= 2 =>
              colormap.name =
                 Str(NameText(colors[1]) \o " " \o NameText(colors[Len(colors)]))

\* C5: an override name is the colormap's name, for every number of colors
\* and whatever the colors are called; the stops are those of the call
\* without the override.
C5_OverrideWins ==
    /\ (BuildReturned /\ Len(colors) > 0 /\ args.name # None) =>
          /\ raised = "none"
          /\ colormap.name = args.name
          /\ colormap.stops = create_colormap_json(colors, None).v.stops
    /\ (InMain /\ colormap # None /\ args.name # None) =>
          colormap.name = args.name

C5_Witness ==
    /\ BuildReturned
    /\ args.name = Str("")
    /\ Len(colors) >= 2
    /\ colors[1].name = None
    /\ colormap # None
    /\ colormap.name = Str("")

\* C6: called with no colors the builder raises the empty-palette error and
\* returns nothing, with or without an override; a run on a well-formed
\* document whose root has no color child never builds or writes a
\* colormap, and once the document is read it ends in the empty-palette
\* failure.
C6_EmptyRejected ==
    /\ (BuildReturned /\ Len(colors) = 0) =>
          raised = "ValueError" /\ colormap = None
    /\ (InMain /\ WellFormed /\ Len(ColorChildren(input.children)) = 0) =>
          /\ colormap = None /\ dumped = 0
          /\ pending = <<>> /\ sink \in {prior, <<>>}
          /\ pc \notin {"build", "dump", "newline", "summary"}
          /\ (Exited /\ raised \notin {"ArgumentError", "OSError"}) =>
                /\ raised = "SystemExit"
                /\ exitCode = 1
                /\ diag = <<"Error: No colors found in input">>

C6_Witness ==
    /\ Exited
    /\ WellFormed
    /\ Len(input.children) > 0
    /\ Len(ColorChildren(input.children)) = 0
    /\ raised = "SystemExit"

\* C7: when a direct color child of the root lacks r, g or b, or carries one
\* that is not an integer, parse_coolors_xml fails with a malformed-color
\* error and returns no record, wherever that child stands.
C7_MalformedColor ==
    (ParseReturned /\ WellFormed
        /\ \E k \in 1..Len(input.children) :
              input.children[k].tag = "color" /\ Malformed(input.children[k]))
    => (raised \in {"TypeError", "ValueError"} /\ colors = None)

C7_Witness ==
    /\ ParseReturned /\ WellFormed
    /\ Len(input.children) = 2
    /\ input.children[1].tag = "color" /\ ~Malformed(input.children[1])
    /\ input.children[2].tag = "color" /\ input.children[2].attrs.b = TxtFrac
    /\ raised = "ValueError"

\* C8: at the end of every run the primary output holds either exactly one
\* complete document and its newline (the run succeeded) or what it held
\* before the run, with nothing written (the run failed).
C8_AllOrNothing ==
    Exited =>
        \/ exitCode = 0 /\ colormap # None /\ sink = Base \o Document
        \/ exitCode # 0 /\ sink = prior

\* C9: a run ends with a non-zero exit status exactly when an error
\* occurred: the document is not well-formed, a color is malformed, there
\* is no color, or the boundary failed; a run that extracted, built and
\* wrote everything ends with status 0.
C9_ExitSignal ==
    Exited =>
        LET cs == ColorChildren(input.children)
            inputBad == \/ ~WellFormed
                        \/ Len(cs) = 0
                        \/ \E k \in 1..Len(cs) : Malformed(cs[k])
            boundary == raised \in {"ArgumentError", "OSError"} \/ lost
        IN  /\ exitCode # 0 <=> (inputBad \/ boundary)
            /\ (colormap # None /\ sink = Base \o Document) => exitCode = 0

\* C10: for a well-formed document whose color children all carry integer
\* r, g, b, parse_coolors_xml returns one record per direct child of the
\* root named color, in document order, name and hex as they are (absent
\* stays absent); other children and nested color elements give no record,
\* and a root without color children gives the empty list, no error.
C10_Extraction ==
    (ParseReturned /\ WellFormed
        /\ \A k \in 1..Len(input.children) :
              input.children[k].tag = "color" => ~Malformed(input.children[k]))
    => LET cs == ColorChildren(input.children)
       IN  /\ raised = "none"
           /\ colors = [k \in 1..Len(cs) |-> RecordOf(cs[k])]

C10_Witness ==
    /\ ParseReturned /\ WellFormed
    /\ raised = "none"
    /\ Len(input.children) = 2
    /\ input.children[1].tag = "swatch" /\ Len(input.children[1].kids) = 1
    /\ input.children[2].tag = "color" /\ Len(input.children[2].kids) = 1
    /\ input.children[2].attrs.name = Str("Red")
    /\ Len(colors) = 1

====
